---- MODULE Spec2Model ----
(***************************************************************************)
(* Model of scripts/build_csapp_pdf.py: the manifest parser, the markdown  *)
(* normalizer, the line wrapper, the PDF serializer and main().            *)
(*                                                                         *)
(* Text is a sequence of characters, each character a one-character        *)
(* string; a character outside ASCII is the token "U+XXXX" of its code     *)
(* point.  Bytes are sequences too: an ASCII byte is the character itself, *)
(* any other byte is the token "xHH".  The backtick, which a TLA+ string    *)
(* cannot hold, is the token "U+0060".                                     *)
(***************************************************************************)
EXTENDS Integers, Sequences, FiniteSets, TLC

VARIABLES
    pc,               \* position in the function being run
    \* ---- main / extract_summary_entries / build_combined_markdown
    summary_text,     \* contents of SUMMARY.md
    skip_markdown,    \* args.skip_markdown
    present,          \* the paths for which path.exists()
    entries,          \* list of (title, path)
    idx,              \* index of the running for loop
    combined_markdown,\* lines returned by build_combined_markdown
    markdown_out,     \* the text written to args.markdown, or Unwritten
    combined_lines,   \* the PDF text line sequence of main
    \* ---- normalize_markdown
    markdown,         \* the document being normalized
    in_code_block,
    norm_lines,       \* normalize_markdown's local "lines"
    \* ---- wrap_lines
    width,
    wrap_in,          \* wrap_lines's argument "lines"
    wrapped,
    \* ---- build_pdf
    lines,            \* build_pdf's argument "lines"
    page_start,
    page_lines,       \* the successive values of page_lines, one per page
    content_lines,    \* the successive values of content_lines, one per page
    content_streams,
    objects,
    pages_kids,
    offsets,
    current_offset,
    body_parts,
    xref_start,
    pdf_out           \* the bytes written to args.pdf, or Unwritten

mainVars == <<summary_text, skip_markdown, present, entries, combined_markdown,
              markdown_out, combined_lines>>
normVars == <<markdown, in_code_block, norm_lines>>
wrapVars == <<width, wrap_in, wrapped>>
pdfVars  == <<lines, page_start, page_lines, content_lines, content_streams,
              objects, pages_kids, offsets, current_offset, body_parts,
              xref_start, pdf_out>>
vars == <<pc, idx, mainVars, normVars, wrapVars, pdfVars>>

Unwritten == <<"<unwritten>">>

(***************************************************************************)
(* Bounds of the model.                                                    *)
(***************************************************************************)
MaxLines == 93          \* longest line sequence handed to build_pdf
MaxDocLines == 3        \* longest document handed to normalize_markdown
MaxWrapLen == 5         \* longest line handed to wrap_lines
MaxWidth == 5           \* widest wrap width tried (the narrowest is 1)
MaxManifestLines == 2   \* longest SUMMARY.md

(***************************************************************************)
(* Text helpers: Python's str methods as used by the script.               *)
(***************************************************************************)
Min(a, b) == IF a <= b THEN a ELSE b

\* str.isspace() over the model's alphabet
IsSpace(c) == c \in {" ", "\t", "\n", "\r"}

\* str.lstrip()
RECURSIVE LStrip(_)
LStrip(s) == IF s # <<>> /\ IsSpace(Head(s)) THEN LStrip(Tail(s)) ELSE s

\* str.rstrip()
RECURSIVE RStrip(_)
RStrip(s) ==
    IF s # <<>> /\ IsSpace(s[Len(s)]) THEN RStrip(SubSeq(s, 1, Len(s) - 1)) ELSE s

\* str.strip()
Strip(s) == LStrip(RStrip(s))

\* str.startswith(p)
StartsWith(s, p) == Len(s) >= Len(p) /\ SubSeq(s, 1, Len(p)) = p

\* s[i:] with a 0-based index
From(s, i) == SubSeq(s, i + 1, Len(s))

\* the concatenation of a list of lists (by halves: the lists are long)
RECURSIVE FlatRange(_, _, _)
FlatRange(ss, lo, hi) ==
    IF lo > hi THEN <<>>
    ELSE IF lo = hi THEN ss[lo]
    ELSE LET mid == (lo + hi) \div 2
         IN FlatRange(ss, lo, mid) \o FlatRange(ss, mid + 1, hi)

Flatten(ss) == FlatRange(ss, 1, Len(ss))

\* sep.join(parts)
Join(parts, sep) ==
    Flatten([i \in 1..Len(parts) |-> IF i = 1 THEN parts[i] ELSE sep \o parts[i]])

\* the least index >= from at which c stands in s, or Len(s) + 1
IndexOf(s, c, from) ==
    IF \E j \in from..Len(s) : s[j] = c
    THEN CHOOSE j \in from..Len(s) : s[j] = c /\ \A m \in from..(j - 1) : s[m] # c
    ELSE Len(s) + 1

\* str.splitlines() over the model's alphabet, whose only line boundary is "\n"
RECURSIVE SplitFrom(_, _)
SplitFrom(s, i) ==
    IF i > Len(s) THEN <<>>
    ELSE LET nl == IndexOf(s, "\n", i)
         IN <<SubSeq(s, i, nl - 1)>> \o SplitFrom(s, nl + 1)

splitlines(s) == SplitFrom(s, 1)

\* str(n) / f"{n}" of a non-negative integer
DigitChars == <<"0", "1", "2", "3", "4", "5", "6", "7", "8", "9">>

RECURSIVE ToDec(_)
ToDec(n) ==
    IF n < 10 THEN <<DigitChars[n + 1]>>
    ELSE Append(ToDec(n \div 10), DigitChars[(n % 10) + 1])

\* f"{n:010d}": zero-padded to at least ten digits
RECURSIVE ZeroPad(_, _)
ZeroPad(s, w) == IF Len(s) >= w THEN s ELSE ZeroPad(<<"0">> \o s, w)

Pad10(n) == ZeroPad(ToDec(n), 10)

\* str.encode("utf-8"): one byte for an ASCII character, the bytes of the code
\* point for the others of the model's alphabet
UTF8Char(c) ==
    CASE c = "U+00E9" -> <<"xC3", "xA9">>
      [] c = "U+4E2D" -> <<"xE4", "xB8", "xAD">>
      [] OTHER -> <<c>>

encode(s) == Flatten([i \in 1..Len(s) |-> UTF8Char(s[i])])

\* key stands in s at index i
MatchAt(s, i, key) == i >= 1 /\ i + Len(key) - 1 <= Len(s) /\ SubSeq(s, i, i + Len(key) - 1) = key

\* the first index >= from at which key stands in s, or 0
FindFrom(s, key, from) ==
    IF \E i \in from..Len(s) : MatchAt(s, i, key)
    THEN CHOOSE i \in from..Len(s) :
            MatchAt(s, i, key) /\ \A j \in from..(i - 1) : ~MatchAt(s, j, key)
    ELSE 0

\* the sequences over S of length at most n
RECURSIVE SeqsUpTo(_, _)
SeqsUpTo(S, n) ==
    IF n = 0 THEN {<<>>}
    ELSE LET shorter == SeqsUpTo(S, n - 1)
         IN shorter \cup {Append(s, x) : s \in shorter, x \in S}

(***************************************************************************)
(* normalize_markdown                                                      *)
(***************************************************************************)
NoMatch == [end |-> 0]

\* the number of characters at s[i], s[i+1], ... that differ from c
RunNot(s, i, c) == IF i > Len(s) THEN 0 ELSE IndexOf(s, c, i) - i

\* a match at s[i] of  <open>([^c]+)<close>,  where close begins with c: the
\* group runs to the first c, which must begin close.  end is the index after
\* the match.
MatchDelim(s, i, open, c, close) ==
    IF ~MatchAt(s, i, open) THEN NoMatch
    ELSE LET st == i + Len(open)
             r == RunNot(s, st, c)
         IN IF r >= 1 /\ MatchAt(s, st + r, close)
            THEN [end |-> st + r + Len(close), inner |-> SubSeq(s, st, st + r - 1)]
            ELSE NoMatch

\* re.sub(<open>([^c]+)<close>, r"\1", s) when keep, re.sub(..., "", s) otherwise:
\* the leftmost matches, none overlapping
RECURSIVE SubDelim(_, _, _, _, _, _)
SubDelim(s, i, open, c, close, keep) ==
    IF i > Len(s) THEN <<>>
    ELSE LET m == MatchDelim(s, i, open, c, close)
         IN IF m.end # 0
            THEN (IF keep THEN m.inner ELSE <<>>)
                 \o SubDelim(s, m.end, open, c, close, keep)
            ELSE <<s[i]>> \o SubDelim(s, i + 1, open, c, close, keep)

\* a match at s[i] of  \[([^\]]+)\]\(([^)]+)\)
LinkMatch(s, i) ==
    LET t == MatchDelim(s, i, <<"[">>, "]", <<"]","(">>)
    IN IF t.end = 0 THEN NoMatch
       ELSE LET r == RunNot(s, t.end, ")")
            IN IF r >= 1 /\ MatchAt(s, t.end + r, <<")">>)
               THEN [end |-> t.end + r + 1, text |-> t.inner,
                     url |-> SubSeq(s, t.end, t.end + r - 1)]
               ELSE NoMatch

\* re.sub(r"\[([^\]]+)\]\(([^)]+)\)", r"\1 (\2)", s)
RECURSIVE SubLink(_, _)
SubLink(s, i) ==
    IF i > Len(s) THEN <<>>
    ELSE LET m == LinkMatch(s, i)
         IN IF m.end # 0
            THEN m.text \o <<" ","(">> \o m.url \o <<")">> \o SubLink(s, m.end)
            ELSE <<s[i]>> \o SubLink(s, i + 1)

\* lines 45-51: the seven substitutions, in the order of the code
StripInline(line) ==
    LET l1 == SubLink(line, 1)
        l2 == SubDelim(l1, 1, <<"U+0060">>, "U+0060", <<"U+0060">>, TRUE)
        l3 == SubDelim(l2, 1, <<"*","*">>, "*", <<"*","*">>, TRUE)
        l4 == SubDelim(l3, 1, <<"*">>, "*", <<"*">>, TRUE)
        l5 == SubDelim(l4, 1, <<"_","_">>, "_", <<"_","_">>, TRUE)
        l6 == SubDelim(l5, 1, <<"_">>, "_", <<"_">>, TRUE)
    IN SubDelim(l6, 1, <<"<">>, ">", <<">">>, FALSE)

\* re.match(r"!\[(.*?)\]\((.*?)\)", line): anchored at the start of the line;
\* the lazy first group ends at the first "](" and the match needs a ")" after it
ImageMatch(line) ==
    LET close == FindFrom(line, <<"]","(">>, 3)
    IN IF StartsWith(line, <<"!","[">>) /\ close # 0
          /\ \E q \in (close + 2)..Len(line) : line[q] = ")"
       THEN [end |-> 1, alt |-> SubSeq(line, 3, close - 1)]
       ELSE NoMatch

\* the number of "#" at the start of the line
RECURSIVE HashRun(_)
HashRun(s) == IF s # <<>> /\ Head(s) = "#" THEN 1 + HashRun(Tail(s)) ELSE 0

\* a plausible slip: the blank line is appended whatever the heading text
HeadingOutAlways(heading_text) ==
    IF heading_text # <<>> THEN <<heading_text, <<>>>> ELSE << <<>> >>

\* lines 55-57: what a heading appends
HeadingOut(heading_text) ==
    IF heading_text # <<>> THEN <<heading_text, <<>>>> ELSE <<>>

\* one pass of the loop body on raw_line: the lines appended and the new flag
NormLine(raw_line, in_code) ==
    LET line == RStrip(raw_line)
        image_match == ImageMatch(line)
        alt_text == IF Strip(image_match.alt) # <<>> THEN Strip(image_match.alt)
                    ELSE <<"I","m","a","g","e">>
        stripped == StripInline(line)
        hashes == HashRun(stripped)
    IN IF StartsWith(Strip(line), <<"U+0060","U+0060","U+0060">>)
         THEN [out |-> <<>>, in_code |-> ~in_code]
       ELSE IF StartsWith(Strip(line), <<"{","%">>)
         THEN [out |-> <<>>, in_code |-> in_code]
       ELSE IF in_code
         THEN [out |-> << <<" "," "," "," ">> \o line >>, in_code |-> in_code]
       ELSE IF image_match.end # 0
         THEN [out |-> << <<"[","I","m","a","g","e",":"," ">> \o alt_text \o <<"]">> >>, in_code |-> in_code]
       ELSE IF hashes > 0
         THEN [out |-> HeadingOut(Strip(From(stripped, hashes))), in_code |-> in_code]
       ELSE [out |-> <<stripped>>, in_code |-> in_code]

\* the whole function, as main calls it
RECURSIVE NormFrom(_, _, _)
NormFrom(raw, i, in_code) ==
    IF i > Len(raw) THEN <<>>
    ELSE LET r == NormLine(raw[i], in_code)
         IN r.out \o NormFrom(raw, i + 1, r.in_code)

normalize_markdown(text) == NormFrom(splitlines(text), 1, FALSE)

\* for raw_line in markdown.splitlines(): one line
NormalizeLine ==
    /\ pc = "normalize"
    /\ idx < Len(splitlines(markdown))
    /\ LET r == NormLine(splitlines(markdown)[idx + 1], in_code_block)
       IN /\ norm_lines' = norm_lines \o r.out
          /\ in_code_block' = r.in_code
    /\ idx' = idx + 1
    /\ UNCHANGED <<pc, markdown, mainVars, wrapVars, pdfVars>>

\* return lines
NormalizeReturn ==
    /\ pc = "normalize"
    /\ idx >= Len(splitlines(markdown))
    /\ pc' = "done"
    /\ UNCHANGED <<idx, normVars, mainVars, wrapVars, pdfVars>>

\* the lines the normalizer is tried on
NormPalette ==
    << <<"U+0060","U+0060","U+0060">>,            \* a fence
       <<"a"," "," ">>,            \* text with trailing spaces
       <<"{","%"," ","x">>,           \* a template directive
       <<"#"," ","a">>,            \* a heading
       <<"#"," ","<","b",">">>,          \* a heading whose text is only a tag
       <<"!","[","i","]","(","u",")">>,        \* an image
       <<"x"," ","!","[","i","]","(","u",")">>,      \* an image after other text
       <<"!","[","]","(","u",")"," ","t">>,       \* an image with no alt text, then text
       <<"*","*","b","*","*"," ","U+0060","c","U+0060">>,      \* bold text and inline code
       <<"#"," ","*","b","*"," ","[","t","]","(","u",")">>,   \* a heading with emphasis and a link
       <<"#">> >>            \* a heading with no text

NormInputs ==
    {Join([i \in 1..Len(ix) |-> NormPalette[ix[i]]], <<"\n">>) :
        ix \in SeqsUpTo(1..Len(NormPalette), MaxDocLines)}
(***************************************************************************)
(* wrap_lines, with textwrap.wrap as the call of lines 71-77 configures it: *)
(* expand_tabs, drop_whitespace and break_long_words at their defaults      *)
(* (True), replace_whitespace=False.  The model's alphabet has no hyphen,   *)
(* so a word is a maximal run of characters that are not whitespace.        *)
(***************************************************************************)
DefaultWidth == 90

IsBlank(s) == Strip(s) = <<>>

\* the leading whitespace of the line: re.match(r"^(\s*)", line).group(1)
LeadingSpace(line) == SubSeq(line, 1, Len(line) - Len(LStrip(line)))

\* str.expandtabs(8): a tab becomes the spaces up to the next multiple of 8;
\* col is the column at which s begins
RECURSIVE ExpandTabsFrom(_, _)
ExpandTabsFrom(s, col) ==
    LET t == IndexOf(s, "\t", 1)
        pre == SubSeq(s, 1, t - 1)
        breaks == {j \in 1..Len(pre) : pre[j] \in {"\n", "\r"}}
        at == IF breaks = {} THEN col + Len(pre)
              ELSE Len(pre) - (CHOOSE j \in breaks : \A m \in breaks : m <= j)
    IN IF t > Len(s) THEN s
       ELSE pre \o [i \in 1..(8 - (at % 8)) |-> " "] \o ExpandTabsFrom(From(s, t), 0)

ExpandTabs(s) == ExpandTabsFrom(s, 0)

\* the index after the run of whitespace, or of other characters, that begins at s[i]
RunEnd(s, i) ==
    IF \E j \in (i + 1)..Len(s) : IsSpace(s[j]) # IsSpace(s[i])
    THEN CHOOSE j \in (i + 1)..Len(s) :
            /\ IsSpace(s[j]) # IsSpace(s[i])
            /\ \A m \in (i + 1)..(j - 1) : IsSpace(s[m]) = IsSpace(s[i])
    ELSE Len(s) + 1

\* TextWrapper._split: the maximal runs of whitespace and of other characters
RECURSIVE ChunksFrom(_, _)
ChunksFrom(s, i) ==
    IF i > Len(s) THEN <<>>
    ELSE <<SubSeq(s, i, RunEnd(s, i) - 1)>> \o ChunksFrom(s, RunEnd(s, i))

Chunks(s) == ChunksFrom(s, 1)

\* the inner loop of TextWrapper._wrap_chunks: chunks are taken while they fit
RECURSIVE Fill(_, _, _, _)
Fill(chunks, cur_line, cur_len, w) ==
    IF chunks # <<>> /\ cur_len + Len(chunks[1]) <= w
    THEN Fill(Tail(chunks), Append(cur_line, chunks[1]), cur_len + Len(chunks[1]), w)
    ELSE [cur_line |-> cur_line, cur_len |-> cur_len, chunks |-> chunks]

\* TextWrapper._handle_long_word with break_long_words: the next chunk fits on
\* no line, and the part of it that fits in the space left goes on this line
HandleLongWord(f, w) ==
    IF f.chunks # <<>> /\ Len(f.chunks[1]) > w
    THEN LET space_left == IF w < 1 THEN 1 ELSE w - f.cur_len
             chunk == f.chunks[1]
         IN [cur_line |-> Append(f.cur_line, SubSeq(chunk, 1, space_left)),
             chunks |-> <<From(chunk, space_left)>> \o Tail(f.chunks)]
    ELSE [cur_line |-> f.cur_line, chunks |-> f.chunks]

\* drop_whitespace: a whitespace chunk at the start of a line that is not the
\* first, or at the end of a line, is dropped
DropBlank(chunk, started) == IsBlank(chunk) /\ started

\* TextWrapper._wrap_chunks: the lines of one paragraph
RECURSIVE WrapChunks(_, _, _, _)
WrapChunks(chunks, out, indent, wd) ==
    IF chunks = <<>> THEN out
    ELSE LET w == wd - Len(indent)
             cs == IF DropBlank(chunks[1], out # <<>>) THEN Tail(chunks) ELSE chunks
             g == HandleLongWord(Fill(cs, <<>>, 0, w), w)
             n == Len(g.cur_line)
             cur == IF n > 0 /\ DropBlank(g.cur_line[n], TRUE)
                    THEN SubSeq(g.cur_line, 1, n - 1) ELSE g.cur_line
         IN WrapChunks(g.chunks,
                       IF cur # <<>> THEN Append(out, indent \o Flatten(cur)) ELSE out,
                       indent, wd)

\* textwrap.wrap(content, width=wd, initial_indent=indent,
\*               subsequent_indent=indent, replace_whitespace=False)
TextWrap(content, wd, indent) == WrapChunks(Chunks(ExpandTabs(content)), <<>>, indent, wd)

\* one pass of the loop body of wrap_lines: the lines appended for one line
WrapOne(line, wd) ==
    IF Strip(line) = <<>> THEN << <<>> >>
    ELSE LET indent == LeadingSpace(line)
             wrapped_lines == TextWrap(Strip(line), wd, indent)
         IN IF wrapped_lines # <<>> THEN wrapped_lines ELSE <<indent>>

\* the whole function, as main calls it
wrap_lines(ls, wd) == Flatten([i \in 1..Len(ls) |-> WrapOne(ls[i], wd)])

\* for line in lines: one line
WrapLine ==
    /\ pc = "wrap"
    /\ idx < Len(wrap_in)
    /\ wrapped' = wrapped \o WrapOne(wrap_in[idx + 1], width)
    /\ idx' = idx + 1
    /\ UNCHANGED <<pc, width, wrap_in, mainVars, normVars, pdfVars>>

\* return wrapped
WrapReturn ==
    /\ pc = "wrap"
    /\ idx >= Len(wrap_in)
    /\ pc' = "done"
    /\ UNCHANGED <<idx, wrapVars, mainVars, normVars, pdfVars>>

\* the lines the wrapper is tried on: every text of letters, spaces and tabs
WrapAlphabet == {"a", " ", "\t"}

WrapInputs == {<<l>> : l \in SeqsUpTo(WrapAlphabet, MaxWrapLen)}

(***************************************************************************)
(* extract_summary_entries, build_combined_markdown, write_combined_markdown*)
(* and main                                                                *)
(***************************************************************************)
\* ROOT: the directory above scripts/
ROOT == <<"/","r">>

RuleWidth == 80

\* a match at s[i] of  \[([^\]]+)\]\(([^)]+\.md)\)
SummaryLinkAt(s, i) ==
    LET t == MatchDelim(s, i, <<"[">>, "]", <<"]","(">>)
    IN IF t.end = 0 THEN NoMatch
       ELSE LET r == RunNot(s, t.end, ")")
            IN IF /\ r >= 4
                  /\ MatchAt(s, t.end + r, <<")">>)
                  /\ SubSeq(s, t.end + r - 3, t.end + r - 1) = <<".","m","d">>
               THEN [end |-> t.end + r + 1, title |-> t.inner,
                     rel_path |-> SubSeq(s, t.end, t.end + r - 1)]
               ELSE NoMatch

\* a plausible slip: the last link of the line is taken
RECURSIVE SearchLast(_, _)
SearchLast(s, i) ==
    IF i < 1 THEN NoMatch
    ELSE IF SummaryLinkAt(s, i).end # 0 THEN SummaryLinkAt(s, i)
    ELSE SearchLast(s, i - 1)

SummarySearchLast(s) == SearchLast(s, Len(s))

\* re.search: the match at the least index of the line
RECURSIVE SearchFrom(_, _)
SearchFrom(s, i) ==
    IF i > Len(s) THEN NoMatch
    ELSE IF SummaryLinkAt(s, i).end # 0 THEN SummaryLinkAt(s, i)
    ELSE SearchFrom(s, i + 1)

SummarySearch(s) == SearchFrom(s, 1)

\* ROOT / rel_path: an absolute rel_path replaces ROOT
PathJoin(root, rel_path) ==
    IF StartsWith(rel_path, <<"/">>) THEN rel_path ELSE root \o <<"/">> \o rel_path

\* path.relative_to(ROOT), or ValueError when path is not under ROOT
ValueError == <<"<ValueError>">>

RelativeTo(path, root) ==
    IF StartsWith(path, root \o <<"/">>) THEN From(path, Len(root) + 1) ELSE ValueError

RECURSIVE EntriesFrom(_, _)
EntriesFrom(ls, i) ==
    IF i > Len(ls) THEN <<>>
    ELSE LET match == SummarySearch(ls[i])
         IN (IF match.end = 0 THEN <<>>
             ELSE << <<Strip(match.title), PathJoin(ROOT, match.rel_path)>> >>)
            \o EntriesFrom(ls, i + 1)

extract_summary_entries(text) == EntriesFrom(splitlines(text), 1)

\* the documents of the project, and what path.read_text gives for each
PathA == <<"/","r","/","a",".","m","d">>
PathB == <<"/","r","/","b",".","m","d">>

FileText(path) ==
    IF path = PathA THEN <<"#"," ","H","e","l","l","o","\n","W","o","r","l","d","\n">> ELSE <<"U+0060","U+0060","U+0060","\n","x"," ","="," ","(","1",")","\n","U+0060","U+0060","U+0060","\n","!","[","i","]","(","u",")","\n">>

MissingLine(path) == <<"[","M","i","s","s","i","n","g"," ","f","i","l","e",":"," ">> \o RelativeTo(path, ROOT) \o <<"]">>

\* summary_text = SUMMARY_PATH.read_text(); entries = extract_summary_entries(...)
ReadSummary ==
    /\ pc = "main"
    /\ entries' = extract_summary_entries(summary_text)
    /\ idx' = 0
    /\ pc' = "combine"
    /\ UNCHANGED <<summary_text, skip_markdown, present, combined_markdown,
                   markdown_out, combined_lines, normVars, wrapVars, pdfVars>>

\* build_combined_markdown: one entry
CombineEntry ==
    /\ pc = "combine"
    /\ idx < Len(entries)
    /\ LET title == entries[idx + 1][1]
           path == entries[idx + 1][2]
           head == << <<"#"," ">> \o title, <<>> >>
       IN IF path \notin present
          THEN IF RelativeTo(path, ROOT) = ValueError
               THEN /\ combined_markdown' = combined_markdown \o head
                    /\ pc' = "error"
                    /\ idx' = idx
               ELSE /\ combined_markdown' =
                          combined_markdown \o head \o <<MissingLine(path), <<>>>>
                    /\ pc' = pc
                    /\ idx' = idx + 1
          ELSE /\ combined_markdown' =
                     combined_markdown \o head \o <<RStrip(FileText(path)), <<>>>>
               /\ pc' = pc
               /\ idx' = idx + 1
    /\ UNCHANGED <<summary_text, skip_markdown, present, entries, markdown_out,
                   combined_lines, normVars, wrapVars, pdfVars>>

\* write_combined_markdown(combined_markdown, args.markdown)
WriteMarkdown ==
    /\ pc = "combine"
    /\ idx >= Len(entries)
    /\ ~skip_markdown
    /\ markdown_out' = Strip(Join(combined_markdown, <<"\n">>)) \o <<"\n">>
    /\ idx' = 0
    /\ pc' = "pdflines"
    /\ UNCHANGED <<summary_text, skip_markdown, present, entries, combined_markdown,
                   combined_lines, normVars, wrapVars, pdfVars>>

\* --skip-markdown: nothing is written
SkipMarkdown ==
    /\ pc = "combine"
    /\ idx >= Len(entries)
    /\ skip_markdown
    /\ idx' = 0
    /\ pc' = "pdflines"
    /\ UNCHANGED <<mainVars, normVars, wrapVars, pdfVars>>

\* the loop of lines 217-228: one entry
PdfEntry ==
    /\ pc = "pdflines"
    /\ idx < Len(entries)
    /\ LET title == entries[idx + 1][1]
           path == entries[idx + 1][2]
           rule == [i \in 1..RuleWidth |-> "="]
           head == <<rule, title, rule, <<>>>>
       IN IF path \notin present
          THEN IF RelativeTo(path, ROOT) = ValueError
               THEN /\ combined_lines' = combined_lines \o head
                    /\ pc' = "error"
                    /\ idx' = idx
               ELSE /\ combined_lines' =
                          combined_lines \o head \o <<MissingLine(path), <<>>>>
                    /\ pc' = pc
                    /\ idx' = idx + 1
          ELSE /\ combined_lines' =
                     combined_lines \o head \o normalize_markdown(FileText(path))
                     \o << <<>> >>
               /\ pc' = pc
               /\ idx' = idx + 1
    /\ UNCHANGED <<summary_text, skip_markdown, present, entries, combined_markdown,
                   markdown_out, normVars, wrapVars, pdfVars>>

\* wrapped_lines = wrap_lines(combined_lines); build_pdf(wrapped_lines, args.pdf)
WrapAndBuild ==
    /\ pc = "pdflines"
    /\ idx >= Len(entries)
    /\ width' = DefaultWidth
    /\ wrap_in' = combined_lines
    /\ wrapped' = wrap_lines(combined_lines, DefaultWidth)
    /\ lines' = wrapped'
    /\ idx' = 0
    /\ pc' = "paginate"
    /\ UNCHANGED <<mainVars, normVars, page_start, page_lines, content_lines,
                   content_streams, objects, pages_kids, offsets, current_offset,
                   body_parts, xref_start, pdf_out>>

\* the lines SUMMARY.md is tried on
SummaryPalette ==
    << <<"[","I","n","t","r","o","]","(","a",".","m","d",")">>,
       <<"[","M","i","s","s","i","n","g","]","(","b",".","m","d",")">>,
       <<"*"," ","n","o","t","e","s"," ","(","x",".","m","d",")">>,
       <<"[","A","]","(","a",".","m","d",")"," ","a","n","d"," ","[","B","]","(","b",".","m","d",")">>,
       <<"["," ","T"," ","]","(","/","c",".","m","d",")">>,
       <<"[","x","]","(","y",".","t","x","t",")"," ","[","B","]","(","b",".","m","d",")">> >>

SummaryInputs ==
    {Join([i \in 1..Len(ix) |-> SummaryPalette[ix[i]]], <<"\n">>) :
        ix \in SeqsUpTo(1..Len(SummaryPalette), MaxManifestLines)}

(***************************************************************************)
(* build_pdf                                                               *)
(***************************************************************************)
lines_per_page == 46
page_width == 612
page_height == 792
margin_left == 72
start_y == 720
leading == 14

\* str.replace(ch, rep) for a one-character ch
Replace(s, ch, rep) ==
    Flatten([i \in 1..Len(s) |-> IF s[i] = ch THEN rep ELSE <<s[i]>>])

\* a plausible slip: the parentheses are escaped before the backslash
escape_parens_first(text) ==
    Replace(Replace(Replace(text, "(", <<"\\","(">>), ")", <<"\\",")">>), "\\", <<"\\","\\">>)

escape_pdf_text(text) ==
    Replace(Replace(Replace(text, "\\", <<"\\","\\">>), "(", <<"\\","(">>), ")", <<"\\",")">>)

\* "(<escaped line>) Tj" and "T*" for one line
ShowLine(line) == << <<"(">> \o escape_pdf_text(line) \o <<")"," ","T","j">>, <<"T","*">> >>

ShowLines(ls) == Flatten([i \in 1..Len(ls) |-> ShowLine(ls[i])])

\* content_lines of one page
ContentLines(pl) ==
    << <<"B","T">>, <<"/","F","1"," ","1","2"," ","T","f">>, ToDec(leading) \o <<" ","T","L">>,
       ToDec(margin_left) \o <<" ">> \o ToDec(start_y) \o <<" ","T","d">> >>
    \o ShowLines(pl) \o << <<"E","T">> >>

\* a plausible slip: the slice keeps one line fewer than a full page
PageSliceShort(ls, start) ==
    SubSeq(ls, start + 1, Min(start + lines_per_page - 1, Len(ls)))

\* lines[page_start : page_start + lines_per_page]
PageSlice(ls, start) == SubSeq(ls, start + 1, Min(start + lines_per_page, Len(ls)))

page_objects_start == 3

\* a plausible slip: the content objects are numbered from the page objects
content_objects_start_same == page_objects_start

content_objects_start == page_objects_start + Len(content_streams)

CatalogObj == <<"<","<"," ","/","T","y","p","e"," ","/","C","a","t","a","l","o","g"," ","/","P","a","g","e","s"," ","2"," ","0"," ","R"," ",">",">">>

FontObj == <<"<","<"," ","/","T","y","p","e"," ","/","F","o","n","t"," ","/","S","u","b","t","y","p","e"," ","/","T","y","p","e","1"," ","/","B","a","s","e","F","o","n","t"," ","/","H","e","l","v","e","t","i","c","a"," ",">",">">>

PagesObj ==
    <<"<","<"," ","/","T","y","p","e"," ","/","P","a","g","e","s"," ","/","K","i","d","s"," ","[">> \o Join(pages_kids, <<" ">>) \o <<"]"," ","/","C","o","u","n","t"," ">>
    \o ToDec(Len(content_streams)) \o <<" ",">",">">>

PageObj(content_obj_num) ==
    <<"<","<"," ","/","T","y","p","e"," ","/","P","a","g","e"," ","/","P","a","r","e","n","t"," ","2"," ","0"," ","R"," ","/","M","e","d","i","a","B","o","x"," ","[","0"," ","0"," ">> \o ToDec(page_width) \o <<" ">>
    \o ToDec(page_height) \o <<"]"," ","/","C","o","n","t","e","n","t","s"," ">> \o ToDec(content_obj_num)
    \o <<" ","0"," ","R"," ","/","R","e","s","o","u","r","c","e","s"," ","<","<"," ","/","F","o","n","t"," ","<","<"," ","/","F","1"," ">>
    \o ToDec(content_objects_start + Len(content_streams)) \o <<" ","0"," ","R"," ",">",">"," ",">",">"," ",">",">">>

StreamObj(stream) ==
    <<"<","<"," ","/","L","e","n","g","t","h"," ">> \o ToDec(Len(stream)) \o <<" ",">",">","\n","s","t","r","e","a","m","\n">> \o stream \o <<"\n","e","n","d","s","t","r","e","a","m">>

pdf_header == <<"%","P","D","F","-","1",".","4","\n">>

\* a plausible slip: the newline that ends the header is not counted
InitialOffsetShort == Len(pdf_header) - 1

InitialOffset == Len(pdf_header)

ObjBytes(index, content) == ToDec(index) \o <<" ","0"," ","o","b","j","\n">> \o content \o <<"\n","e","n","d","o","b","j","\n">>

XrefEntries(offs) == [i \in 1..Len(offs) |-> Pad10(offs[i]) \o <<" ","0","0","0","0","0"," ","n"," ">>]

Xref ==
    Join(<< <<"x","r","e","f","\n","0"," ">> \o ToDec(Len(objects) + 1), <<"0","0","0","0","0","0","0","0","0","0"," ","6","5","5","3","5"," ","f"," ">> >>
         \o XrefEntries(Tail(offsets)), <<"\n">>)

Trailer(start) ==
    <<"t","r","a","i","l","e","r","\n","<","<"," ","/","S","i","z","e"," ">> \o ToDec(Len(objects) + 1) \o <<" ","/","R","o","o","t"," ","1"," ","0"," ","R"," ",">",">","\n","s","t","a","r","t","x","r","e","f","\n">>
    \o ToDec(start) \o <<"\n","%","%","E","O","F","\n">>

\* for page_start in range(0, len(lines), lines_per_page): one page
BuildPage ==
    /\ pc = "paginate"
    /\ page_start < Len(lines)
    /\ LET pl == PageSlice(lines, page_start)
           cl == ContentLines(pl)
       IN /\ page_lines' = Append(page_lines, pl)
          /\ content_lines' = Append(content_lines, cl)
          /\ content_streams' = Append(content_streams, encode(Join(cl, <<"\n">>)))
    /\ page_start' = page_start + lines_per_page
    /\ UNCHANGED <<pc, idx, mainVars, normVars, wrapVars, lines, objects, pages_kids,
                   offsets, current_offset, body_parts, xref_start, pdf_out>>

\* add_obj(catalog)
AddCatalog ==
    /\ pc = "paginate"
    /\ page_start >= Len(lines)
    /\ objects' = Append(objects, CatalogObj)
    /\ pages_kids' = <<>>
    /\ idx' = 0
    /\ pc' = "kids"
    /\ UNCHANGED <<mainVars, normVars, wrapVars, lines, page_start, page_lines,
                   content_lines, content_streams, offsets, current_offset,
                   body_parts, xref_start, pdf_out>>

\* pages_kids.append(f"{page_obj_num} 0 R")
AddKid ==
    /\ pc = "kids"
    /\ idx < Len(content_streams)
    /\ pages_kids' = Append(pages_kids, ToDec(page_objects_start + idx) \o <<" ","0"," ","R">>)
    /\ idx' = idx + 1
    /\ UNCHANGED <<pc, mainVars, normVars, wrapVars, lines, page_start, page_lines,
                   content_lines, content_streams, objects, offsets, current_offset,
                   body_parts, xref_start, pdf_out>>

\* add_obj(pages_obj)
AddPagesObj ==
    /\ pc = "kids"
    /\ idx >= Len(content_streams)
    /\ objects' = Append(objects, encode(PagesObj))
    /\ idx' = 0
    /\ pc' = "pageobjs"
    /\ UNCHANGED <<mainVars, normVars, wrapVars, lines, page_start, page_lines,
                   content_lines, content_streams, pages_kids, offsets,
                   current_offset, body_parts, xref_start, pdf_out>>

\* add_obj(page_obj) for page idx
AddPageObj ==
    /\ pc = "pageobjs"
    /\ idx < Len(content_streams)
    /\ objects' = Append(objects, encode(PageObj(content_objects_start + idx)))
    /\ idx' = idx + 1
    /\ UNCHANGED <<pc, mainVars, normVars, wrapVars, lines, page_start, page_lines,
                   content_lines, content_streams, pages_kids, offsets,
                   current_offset, body_parts, xref_start, pdf_out>>

\* the loop over the pages is over: on to the loop over the streams
EndPageObjs ==
    /\ pc = "pageobjs"
    /\ idx >= Len(content_streams)
    /\ idx' = 0
    /\ pc' = "streamobjs"
    /\ UNCHANGED <<mainVars, normVars, wrapVars, pdfVars>>

\* add_obj(stream_obj) for stream idx
AddStreamObj ==
    /\ pc = "streamobjs"
    /\ idx < Len(content_streams)
    /\ objects' = Append(objects, StreamObj(content_streams[idx + 1]))
    /\ idx' = idx + 1
    /\ UNCHANGED <<pc, mainVars, normVars, wrapVars, lines, page_start, page_lines,
                   content_lines, content_streams, pages_kids, offsets,
                   current_offset, body_parts, xref_start, pdf_out>>

\* add_obj(font); offsets = [0]; current_offset = len(pdf_header)
AddFont ==
    /\ pc = "streamobjs"
    /\ idx >= Len(content_streams)
    /\ objects' = Append(objects, FontObj)
    /\ offsets' = <<0>>
    /\ current_offset' = InitialOffset
    /\ body_parts' = <<>>
    /\ idx' = 1
    /\ pc' = "serialize"
    /\ UNCHANGED <<mainVars, normVars, wrapVars, lines, page_start, page_lines,
                   content_lines, content_streams, pages_kids, xref_start, pdf_out>>

\* for index, content in enumerate(objects, start=1): one object
SerializeObj ==
    /\ pc = "serialize"
    /\ idx <= Len(objects)
    /\ LET obj_bytes == ObjBytes(idx, objects[idx])
       IN /\ offsets' = Append(offsets, current_offset)
          /\ body_parts' = Append(body_parts, obj_bytes)
          /\ current_offset' = current_offset + Len(obj_bytes)
    /\ idx' = idx + 1
    /\ UNCHANGED <<pc, mainVars, normVars, wrapVars, lines, page_start, page_lines,
                   content_lines, content_streams, objects, pages_kids, xref_start,
                   pdf_out>>

\* the cross-reference section, the trailer and output_path.write_bytes
WritePdf ==
    /\ pc = "serialize"
    /\ idx > Len(objects)
    /\ xref_start' = current_offset
    /\ pdf_out' = pdf_header \o Flatten(body_parts) \o encode(Xref) \o <<"\n">>
                  \o encode(Trailer(current_offset))
    /\ pc' = "done"
    /\ UNCHANGED <<idx, mainVars, normVars, wrapVars, lines, page_start, page_lines,
                   content_lines, content_streams, objects, pages_kids, offsets,
                   current_offset, body_parts>>

\* the state at the entry of build_pdf(ls, ...)
EnterBuildPdf(ls) ==
    /\ lines = ls
    /\ page_start = 0
    /\ page_lines = <<>>
    /\ content_lines = <<>>
    /\ content_streams = <<>>
    /\ objects = <<>>
    /\ pages_kids = <<>>
    /\ offsets = <<>>
    /\ current_offset = 0
    /\ body_parts = <<>>
    /\ xref_start = 0
    /\ pdf_out = Unwritten

\* the lines the serializer is tried on: empty, parentheses and a backslash,
\* characters of two and three bytes
PdfPalette == << <<>>, <<"a","(","b",")">>, <<"\\","(">>, <<"U+00E9","U+4E2D">> >>

PdfInputs ==
    { [i \in 1..n |-> PdfPalette[((i + b) % Len(PdfPalette)) + 1]] :
        n \in 0..MaxLines, b \in 0..(Len(PdfPalette) - 1) }

IdleMain ==
    /\ summary_text = <<>>
    /\ skip_markdown = FALSE
    /\ present = {}
    /\ entries = <<>>
    /\ combined_markdown = <<>>
    /\ markdown_out = Unwritten
    /\ combined_lines = <<>>

IdleNorm ==
    /\ markdown = <<>>
    /\ in_code_block = FALSE
    /\ norm_lines = <<>>

IdleWrap ==
    /\ width = 0
    /\ wrap_in = <<>>
    /\ wrapped = <<>>

InitPdf ==
    /\ pc = "paginate"
    /\ idx = 0
    /\ IdleMain /\ IdleNorm /\ IdleWrap
    /\ \E ls \in PdfInputs : EnterBuildPdf(ls)

NextPdf ==
    \/ BuildPage
    \/ AddCatalog
    \/ AddKid
    \/ AddPagesObj
    \/ AddPageObj
    \/ EndPageObjs
    \/ AddStreamObj
    \/ AddFont
    \/ SerializeObj
    \/ WritePdf

SpecPdf == InitPdf /\ [][NextPdf]_vars

(***************************************************************************)
(* The specifications: one per function, each started on bounded inputs.   *)
(***************************************************************************)
InitNorm ==
    /\ pc = "normalize"
    /\ idx = 0
    /\ IdleMain /\ IdleWrap /\ EnterBuildPdf(<<>>)
    /\ markdown \in NormInputs
    /\ in_code_block = FALSE
    /\ norm_lines = <<>>

NextNorm ==
    \/ NormalizeLine
    \/ NormalizeReturn

SpecNorm == InitNorm /\ [][NextNorm]_vars

InitWrap ==
    /\ pc = "wrap"
    /\ idx = 0
    /\ IdleMain /\ IdleNorm /\ EnterBuildPdf(<<>>)
    /\ width \in 1..MaxWidth
    /\ wrap_in \in WrapInputs
    /\ wrapped = <<>>

NextWrap ==
    \/ WrapLine
    \/ WrapReturn

SpecWrap == InitWrap /\ [][NextWrap]_vars

InitMain ==
    /\ pc = "main"
    /\ idx = 0
    /\ IdleNorm /\ IdleWrap /\ EnterBuildPdf(<<>>)
    /\ summary_text \in SummaryInputs
    /\ skip_markdown \in BOOLEAN
    /\ present \in {{PathA}, {PathA, PathB}}
    /\ entries = <<>>
    /\ combined_markdown = <<>>
    /\ markdown_out = Unwritten
    /\ combined_lines = <<>>

NextMain ==
    \/ ReadSummary
    \/ CombineEntry
    \/ WriteMarkdown
    \/ SkipMarkdown
    \/ PdfEntry
    \/ WrapAndBuild
    \/ BuildPage
    \/ AddCatalog
    \/ AddKid
    \/ AddPagesObj
    \/ AddPageObj
    \/ EndPageObjs
    \/ AddStreamObj
    \/ AddFont
    \/ SerializeObj
    \/ WritePdf

Spec == InitMain /\ [][NextMain]_vars

(***************************************************************************)
(* Reading the written bytes back, as a PDF reader does.                   *)
(***************************************************************************)
IsDigit(c) == c \in {DigitChars[i] : i \in 1..10}

DigitValue(c) == (CHOOSE i \in 1..10 : DigitChars[i] = c) - 1

\* the number of digits at s[i], s[i+1], ...
RECURSIVE DigitRun(_, _)
DigitRun(s, i) == IF i <= Len(s) /\ IsDigit(s[i]) THEN 1 + DigitRun(s, i + 1) ELSE 0

RECURSIVE DecValue(_)
DecValue(ds) ==
    IF ds = <<>> THEN 0
    ELSE 10 * DecValue(SubSeq(ds, 1, Len(ds) - 1)) + DigitValue(ds[Len(ds)])

\* the number written at s[i..], or -1 when no digit stands there
ParseNat(s, i) ==
    IF DigitRun(s, i) = 0 THEN -1 ELSE DecValue(SubSeq(s, i, i + DigitRun(s, i) - 1))

\* the object number n of the reference "<key>n 0 R" of a dictionary, or -1
RefAfter(o, key) ==
    LET at == FindFrom(o, key, 1)
        i == at + Len(key)
    IN IF at # 0 /\ MatchAt(o, i + DigitRun(o, i), <<" ","0"," ","R">>) THEN ParseNat(o, i) ELSE -1

\* the number n of "<key>n", or -1
NumAfter(o, key) ==
    LET at == FindFrom(o, key, 1) IN IF at = 0 THEN -1 ELSE ParseNat(o, at + Len(key))

\* the object numbers of "/Kids [a 0 R b 0 R ...]", in order
RECURSIVE RefList(_, _)
RefList(o, i) ==
    IF DigitRun(o, i) > 0 /\ MatchAt(o, i + DigitRun(o, i), <<" ","0"," ","R">>)
    THEN <<ParseNat(o, i)>>
         \o (LET j == i + DigitRun(o, i) + 4
             IN IF MatchAt(o, j, <<" ">>) THEN RefList(o, j + 1) ELSE <<>>)
    ELSE <<>>

Kids(o) == RefList(o, FindFrom(o, <<"/","K","i","d","s"," ","[">>, 1) + Len(<<"/","K","i","d","s"," ","[">>))

\* the kind of an object, read from its dictionary
Kind(o) ==
    CASE StartsWith(o, <<"<","<"," ","/","T","y","p","e"," ","/","C","a","t","a","l","o","g"," ">>) -> "Catalog"
      [] StartsWith(o, <<"<","<"," ","/","T","y","p","e"," ","/","P","a","g","e","s"," ">>) -> "Pages"
      [] StartsWith(o, <<"<","<"," ","/","T","y","p","e"," ","/","P","a","g","e"," ">>) -> "Page"
      [] StartsWith(o, <<"<","<"," ","/","T","y","p","e"," ","/","F","o","n","t"," ">>) -> "Font"
      [] StartsWith(o, <<"<","<"," ","/","L","e","n","g","t","h"," ">>) -> "Stream"
      [] OTHER -> "?"

\* the data of a stream object: the /Length bytes after "stream\n"
StreamData(o) ==
    LET at == FindFrom(o, <<"s","t","r","e","a","m","\n">>, 1) + Len(<<"s","t","r","e","a","m","\n">>)
    IN SubSeq(o, at, at + NumAfter(o, <<"/","L","e","n","g","t","h"," ">>) - 1)

\* "<k> 0 obj" begins at byte offset off of the file, at the start of a line
ObjectAt(file, off, k) ==
    /\ off >= 1
    /\ file[off] = "\n"
    /\ MatchAt(file, off + 1, ToDec(k) \o <<" ","0"," ","o","b","j","\n">>)

\* the offset held by the in-use entry of object k in the cross-reference
\* section that starts at byte offset xs of the file: entries are 20 bytes
XrefEntryAt(file, xs, k) ==
    LET count == ParseNat(file, xs + 1 + Len(<<"x","r","e","f","\n","0"," ">>))
        first == xs + 1 + Len(<<"x","r","e","f","\n","0"," ">>) + Len(ToDec(count)) + 1
    IN first + 20 * k

XrefOffset(file, xs, k) ==
    LET at == XrefEntryAt(file, xs, k)
    IN IF DigitRun(file, at) = 10 /\ MatchAt(file, at + 10, <<" ","0","0","0","0","0"," ","n"," ">>)
       THEN ParseNat(file, at) ELSE -1

\* the value of startxref in the trailer
StartXref(file) ==
    LET at == FindFrom(file, <<"\n","s","t","a","r","t","x","r","e","f","\n">>, Len(file) - 40)
    IN IF at = 0 THEN -1 ELSE ParseNat(file, at + Len(<<"\n","s","t","a","r","t","x","r","e","f","\n">>))

CeilDiv(a, b) == (a + b - 1) \div b

(***************************************************************************)
(* C1: every in-use cross-reference entry k of the written file holds the   *)
(* byte offset at which "k 0 obj" begins, the section itself starts where   *)
(* startxref says, and object 1 begins right after the "%PDF-1.4" header    *)
(* line.                                                                    *)
(***************************************************************************)
XrefOffsetsExact ==
    pc = "done" =>
        /\ StartXref(pdf_out) = xref_start
        /\ MatchAt(pdf_out, xref_start + 1, <<"x","r","e","f","\n","0"," ">>)
        /\ \A k \in 1..Len(objects) :
              ObjectAt(pdf_out, XrefOffset(pdf_out, xref_start, k), k)
        /\ XrefOffset(pdf_out, xref_start, 1) = Len(<<"%","P","D","F","-","1",".","4","\n">>)

\* a two-page file whose streams hold characters of several bytes
XrefOffsetsWitness ==
    /\ pc = "done"
    /\ Len(content_streams) = 2
    /\ \E i \in 1..Len(lines) : lines[i] = <<"U+00E9","U+4E2D">>
    /\ XrefOffset(pdf_out, xref_start, 7) > XrefOffset(pdf_out, xref_start, 6)

(***************************************************************************)
(* C2: n lines make ceil(n / 46) pages; every page but the last holds 46    *)
(* lines and the last 1 to 46; the pages in order are the input, nothing    *)
(* lost, duplicated or reordered; no line makes no page, 92 lines make 2.   *)
(***************************************************************************)
PaginationExact ==
    pc # "paginate" =>
        LET n == Len(lines)
            P == Len(page_lines)
        IN /\ P = CeilDiv(n, 46)
           /\ Len(content_streams) = P
           /\ \A p \in 1..(P - 1) : Len(page_lines[p]) = 46
           /\ P > 0 => Len(page_lines[P]) \in 1..46
           /\ Flatten(page_lines) = lines
           /\ \A p \in 1..P : Len(content_lines[p]) = 5 + 2 * Len(page_lines[p])
           /\ n = 0 => P = 0
           /\ n = 92 => P = 2

PaginationWitness ==
    /\ pc = "done"
    /\ Len(lines) = 92
    /\ Len(page_lines) = 2
    /\ Len(page_lines[2]) = 46

(***************************************************************************)
(* C3: P pages make 2P+3 objects numbered 1..2P+3: 1 the catalog, 2 the     *)
(* page tree with Kids 3..P+2 in order and Count P, 3+i Page i, 3+P+i the   *)
(* content stream of page i, 2P+3 the font; Page i refers to content        *)
(* object 3+P+i and font object 2P+3; every reference (Pages, Kids,         *)
(* Parent, Contents, Font, Root) names an emitted object of that kind; the  *)
(* trailer Size is 2P+4.                                                    *)
(***************************************************************************)
ObjectScheme ==
    pc = "done" =>
        LET P == Len(content_streams)
            N == Len(objects)
            tail == From(pdf_out, xref_start)
        IN /\ N = 2 * P + 3
           /\ \A k \in 1..N : StartsWith(body_parts[k], ToDec(k) \o <<" ","0"," ","o","b","j","\n">>)
           /\ Kind(objects[1]) = "Catalog"
           /\ RefAfter(objects[1], <<"/","P","a","g","e","s"," ">>) = 2
           /\ Kind(objects[2]) = "Pages"
           /\ Kids(objects[2]) = [i \in 1..P |-> 2 + i]
           /\ NumAfter(objects[2], <<"/","C","o","u","n","t"," ">>) = P
           /\ \A i \in 0..(P - 1) :
                 /\ Kind(objects[3 + i]) = "Page"
                 /\ RefAfter(objects[3 + i], <<"/","P","a","r","e","n","t"," ">>) = 2
                 /\ RefAfter(objects[3 + i], <<"/","C","o","n","t","e","n","t","s"," ">>) = 3 + P + i
                 /\ RefAfter(objects[3 + i], <<"/","F","1"," ">>) = 2 * P + 3
                 /\ Kind(objects[3 + P + i]) = "Stream"
                 /\ StreamData(objects[3 + P + i]) = content_streams[i + 1]
           /\ Kind(objects[2 * P + 3]) = "Font"
           /\ NumAfter(tail, <<"/","S","i","z","e"," ">>) = 2 * P + 4
           /\ RefAfter(tail, <<"/","R","o","o","t"," ">>) = 1

ObjectSchemeWitness ==
    /\ pc = "done"
    /\ Len(content_streams) = 3
    /\ Len(objects) = 9
    /\ RefAfter(objects[5], <<"/","C","o","n","t","e","n","t","s"," ">>) = 8

(***************************************************************************)
(* C10: in a content stream every line is shown as "(<operand>) Tj", the    *)
(* operand being the line with one backslash added before each "(", ")"     *)
(* and "\" and nothing else changed: un-escaping the operand gives the      *)
(* line back, and the operand holds no unescaped parenthesis.               *)
(***************************************************************************)
IsSpecial(c) == c \in {"(", ")", "\\"}

\* the string a PDF reader takes from a literal-string operand
RECURSIVE Unescape(_)
Unescape(e) ==
    IF e = <<>> THEN <<>>
    ELSE IF Head(e) = "\\" /\ Len(e) >= 2 THEN <<e[2]>> \o Unescape(From(e, 2))
    ELSE <<Head(e)>> \o Unescape(Tail(e))

\* no parenthesis of the operand stands without a backslash of its own
RECURSIVE NoBareParen(_)
NoBareParen(e) ==
    IF e = <<>> THEN TRUE
    ELSE IF Head(e) = "\\" THEN Len(e) >= 2 /\ NoBareParen(From(e, 2))
    ELSE Head(e) \notin {"(", ")"} /\ NoBareParen(Tail(e))

Operand(show) == SubSeq(show, 2, Len(show) - Len(<<")"," ","T","j">>))

EscapeRoundTrip ==
    \A p \in 1..Len(page_lines) :
        \A j \in 1..Len(page_lines[p]) :
            LET line == page_lines[p][j]
                show == content_lines[p][4 + 2 * j - 1]
                e == Operand(show)
            IN /\ show = <<"(">> \o e \o <<")"," ","T","j">>
               /\ Unescape(e) = line
               /\ NoBareParen(e)
               /\ Len(e) = Len(line) + Cardinality({i \in 1..Len(line) : IsSpecial(line[i])})

EscapeWitness ==
    /\ pc = "done"
    /\ \E p \in 1..Len(page_lines) :
          \E j \in 1..Len(page_lines[p]) :
              /\ page_lines[p][j] = <<"\\","(">>
              /\ Operand(content_lines[p][4 + 2 * j - 1]) = <<"\\","\\","\\","(">>

(***************************************************************************)
(* The line the normalizer is about to read.                               *)
(***************************************************************************)
Reading == pc = "normalize" /\ idx < Len(splitlines(markdown))

RawLine == splitlines(markdown)[idx + 1]

\* a fence line: its trimmed content starts with three backticks
IsFence(raw) == StartsWith(Strip(raw), <<"U+0060","U+0060","U+0060">>)

IsTemplate(raw) == StartsWith(Strip(raw), <<"{","%">>)

(***************************************************************************)
(* C4: every line between an opening fence and its closing fence (or the    *)
(* end of the document) is emitted once, as four spaces and the line        *)
(* itself, nothing else changed; and no line whose trimmed content starts   *)
(* with three backticks is ever in the output.                              *)
(***************************************************************************)
FencedVerbatim ==
    /\ [][(Reading /\ in_code_block /\ ~IsFence(RawLine))
            => norm_lines' = Append(norm_lines, <<" "," "," "," ">> \o RawLine)]_vars
    /\ [](\A k \in 1..Len(norm_lines) : ~IsFence(norm_lines[k]))

(***************************************************************************)
(* C7: outside a fenced block a heading line (a leading run of "#") whose   *)
(* heading text is not empty appends exactly two lines, the heading text    *)
(* and an empty line; a heading whose text is empty appends nothing.  The   *)
(* heading text is what follows the "#" run once the inline markup is       *)
(* stripped, trimmed; for a heading without markup it is the rest of the    *)
(* line, trimmed.                                                           *)
(***************************************************************************)
IsHeading(raw) == StartsWith(raw, <<"#">>)

MarkupChars == {"[", "]", "(", ")", "U+0060", "*", "_", "<", ">", "!"}

HasMarkup(raw) == \E i \in 1..Len(raw) : raw[i] \in MarkupChars

HeadingText(raw) ==
    LET s == StripInline(RStrip(raw)) IN Strip(From(s, HashRun(s)))

HeadingLines ==
    [][(Reading /\ ~in_code_block /\ IsHeading(RawLine)) =>
         LET n == Len(norm_lines)
             out == SubSeq(norm_lines', n + 1, Len(norm_lines'))
         IN /\ Len(norm_lines') >= n
            /\ SubSeq(norm_lines', 1, n) = norm_lines
            /\ \/ out = <<>>
               \/ Len(out) = 2 /\ out[1] # <<>> /\ out[2] = <<>>
            /\ out = <<>> <=> HeadingText(RawLine) = <<>>
            /\ out # <<>> => out[1] = HeadingText(RawLine)
            /\ ~HasMarkup(RawLine) =>
                  LET rest == Strip(From(RawLine, HashRun(RawLine)))
                  IN out = IF rest # <<>> THEN <<rest, <<>>>> ELSE <<>>
      ]_vars

\* an empty heading, then a heading with text, have been read
HeadingWitness ==
    /\ pc = "normalize"
    /\ markdown = <<"#","\n","#"," ","a">>
    /\ idx = 2
    /\ norm_lines = << <<"a">>, <<>> >>

(***************************************************************************)
(* C8: outside a fenced block a line that holds an image reference          *)
(* "![alt](url)", wherever in the line, appends the single line             *)
(* "[Image: <alt>]" ("Image" for an empty alt), and is never rewritten by   *)
(* the hyperlink rule.                                                      *)
(***************************************************************************)
\* an image reference begins at index i of the line
ImageAt(l, i) ==
    /\ MatchAt(l, i, <<"!","[">>)
    /\ \E j \in (i + 2)..Len(l) :
          /\ MatchAt(l, j, <<"]","(">>)
          /\ \E k \in (j + 2)..Len(l) : l[k] = ")"

HasImage(l) == \E i \in 1..Len(l) : ImageAt(l, i)

\* the alt text of the first image reference of the line
AltOf(l) ==
    LET i == CHOOSE i \in 1..Len(l) : ImageAt(l, i) /\ \A m \in 1..(i - 1) : ~ImageAt(l, m)
        j == FindFrom(l, <<"]","(">>, i + 2)
        alt == Strip(SubSeq(l, i + 2, j - 1))
    IN IF alt # <<>> THEN alt ELSE <<"I","m","a","g","e">>

ImageAnywhere ==
    [][(Reading /\ ~in_code_block /\ ~IsFence(RawLine) /\ ~IsTemplate(RawLine)
        /\ HasImage(RawLine))
         => norm_lines' = Append(norm_lines, <<"[","I","m","a","g","e",":"," ">> \o AltOf(RawLine) \o <<"]">>)
      ]_vars

(***************************************************************************)
(* C5: for a line that is not blank, every wrapped sub-line starts with the *)
(* line's leading whitespace, and the sub-lines without that indent,        *)
(* re-joined, are the trimmed line with every whitespace run intact, also   *)
(* a run at a wrap boundary.  Re-joining puts nothing, or the one           *)
(* whitespace character a line break stands for, between two sub-lines.     *)
(***************************************************************************)
RECURSIVE Rejoins(_)
Rejoins(pieces) ==
    IF pieces = <<>> THEN {<<>>}
    ELSE IF Len(pieces) = 1 THEN {pieces[1]}
    ELSE {pieces[1] \o sep \o r : sep \in {<<>>, <<" ">>, <<"\t">>}, r \in Rejoins(Tail(pieces))}

WrapRoundTrip ==
    (pc = "done" /\ Len(wrap_in) = 1 /\ ~IsBlank(wrap_in[1])) =>
        LET line == wrap_in[1]
            indent == LeadingSpace(line)
        IN /\ wrapped # <<>>
           /\ \A k \in 1..Len(wrapped) : StartsWith(wrapped[k], indent)
           /\ Strip(line) \in
                 Rejoins([k \in 1..Len(wrapped) |-> From(wrapped[k], Len(indent))])

(***************************************************************************)
(* C9: extract_summary_entries returns one entry for each line that holds   *)
(* the link pattern "[title](path.md)" and none for any other line, in the  *)
(* order of the lines; a line with several links gives its first match      *)
(* only, and a line without a match is skipped without error.               *)
(***************************************************************************)
\* "[title](path.md)" stands in l with "[" at i, "]" at j and ")" at k
LinkAt(l, i, j, k) ==
    /\ l[i] = "["
    /\ j > i + 1
    /\ l[j] = "]"
    /\ \A m \in (i + 1)..(j - 1) : l[m] # "]"
    /\ j + 1 <= Len(l) /\ l[j + 1] = "("
    /\ k >= j + 6
    /\ l[k] = ")"
    /\ \A m \in (j + 2)..(k - 1) : l[m] # ")"
    /\ SubSeq(l, k - 3, k - 1) = <<".","m","d">>

LinkStarts(l) ==
    {i \in 1..Len(l) : \E j \in 1..Len(l) : \E k \in 1..Len(l) : LinkAt(l, i, j, k)}

HasLink(l) == LinkStarts(l) # {}

\* the entry of the first link of the line
FirstEntry(l) ==
    LET i == CHOOSE i \in LinkStarts(l) : \A m \in LinkStarts(l) : i <= m
        jk == CHOOSE jk \in (1..Len(l)) \X (1..Len(l)) : LinkAt(l, i, jk[1], jk[2])
        rel == SubSeq(l, jk[1] + 2, jk[2] - 1)
    IN << Strip(SubSeq(l, i + 1, jk[1] - 1)),
          IF rel[1] = "/" THEN rel ELSE ROOT \o <<"/">> \o rel >>

SummaryEntriesExact ==
    pc # "main" =>
        LET ls == splitlines(summary_text)
            Rank(n) == Cardinality({m \in 1..n : HasLink(ls[m])})
        IN /\ Len(entries) = Rank(Len(ls))
           /\ \A n \in 1..Len(ls) :
                 HasLink(ls[n]) => entries[Rank(n)] = FirstEntry(ls[n])

\* a line without a link, then a line with two links: one entry, the first link
SummaryEntriesWitness ==
    /\ pc = "done"
    /\ summary_text = <<"*"," ","n","o","t","e","s"," ","(","x",".","m","d",")","\n","[","A","]","(","a",".","m","d",")"," ","a","n","d"," ","[","B","]","(","b",".","m","d",")">>
    /\ entries = << << <<"A">>, <<"/","r","/","a",".","m","d">> >> >>

(***************************************************************************)
(* C6: an entry whose file does not exist never aborts the run: the line    *)
(* "[Missing file: <relative path>]" stands for the file's contents in the  *)
(* combined markdown lines and in the PDF text line sequence, every later   *)
(* entry is processed in order, and both outputs are written.               *)
(***************************************************************************)
Range(s) == {s[i] : i \in 1..Len(s)}

MissingFileNonFatal ==
    /\ pc # "error"
    /\ pc = "done" =>
          /\ pdf_out # Unwritten
          /\ ~skip_markdown => markdown_out # Unwritten
          /\ Len(combined_markdown) = 4 * Len(entries)
          /\ \A k \in 1..Len(entries) :
                /\ combined_markdown[4 * k - 3] = <<"#"," ">> \o entries[k][1]
                /\ entries[k][2] \notin present =>
                      /\ combined_markdown[4 * k - 1] = MissingLine(entries[k][2])
                      /\ MissingLine(entries[k][2]) \in Range(combined_lines)
                      /\ MissingLine(entries[k][2]) \in Range(lines)
====
